---- MODULE Spec2Model ----
(***************************************************************************)
(* Model of the ZerePy server's agent runtime control plane                *)
(* (src/src/server/app.py): the ServerState lifecycle object, the loop     *)
(* worker thread it launches, and the FastAPI route handlers that run on   *)
(* the single asyncio event loop.                                          *)
(*                                                                         *)
(* Execution contexts:                                                     *)
(*   - the event loop thread runs one handler at a time; a handler gives   *)
(*     up the loop only at an await that suspends (asyncio.to_thread in    *)
(*     agent_action).  Blocking calls made on the loop thread              *)
(*     (Thread.join in stop_agent_loop, connection.configure) keep the     *)
(*     loop occupied: evpc records that.                                   *)
(*   - each threading.Thread started by start_agent_loop is a loop worker  *)
(*     (wpc[w] is its position in _run_agent_loop).                        *)
(*   - asyncio.to_thread jobs run on pool threads (jobs).                  *)
(***************************************************************************)
EXTENDS Integers, FiniteSets, Sequences, TLC

(* ---- bounds ---- *)
MaxWorkers == 2    \* loop worker threads that can be alive at once
MaxJobs    == 1    \* perform_action calls in flight on pool threads

(* ---- the world the server runs in ---- *)
NoAgent     == "None"
KnownAgents == {"demo", "other"}          \* names with an agent definition
AgentNames  == KnownAgents \cup {"ghost"} \* names a request can carry
ConnNames   == {"twitter", "llm"}         \* registry keys of a loaded agent
ReqConns    == ConnNames \cup {"nosuch"}  \* names a request can carry
ActConns    == {"twitter", "nosuch"}      \* connections an action request names
NoTask      == 0
Workers     == 1..MaxWorkers

VARIABLES
    agent,          \* state.cli.agent: NoAgent or the resident agent's name
    configured,     \* connection name -> is_configured() of the resident agent
    agent_running,  \* state.agent_running
    stop_event,     \* state._stop_event flag
    agent_task,     \* state.agent_task: NoTask or the Thread last started
    wpc,            \* worker -> position in _run_agent_loop
    evpc,           \* what the event loop thread is executing
    evarg,          \* the connection a blocked configure call is working on
    jobs,           \* perform_action calls running on pool threads
    resp,           \* the response being sent to a client (NoResponse: none)
    startedSinceStop, \* history: a start_loop succeeded since the last stop_loop call
    lastLoaded,     \* history: name of the last load_agent that reported success
    joinTimedOut    \* history: a stop_loop's join has expired with its worker alive

vars == <<agent, configured, agent_running, stop_event, agent_task, wpc, evpc,
          evarg, jobs, resp, startedSinceStop, lastLoaded, joinTimedOut>>

lifecycle == <<agent, agent_running, stop_event, agent_task, wpc>>
history   == <<startedSinceStop, lastLoaded, joinTimedOut>>

Alive(w) == wpc[w] # "off"

(* ---- responses and exceptions ---- *)
\* body: the JSON fields of a success response that carry state
Response(op, code, detail, body) ==
    [op |-> op, code |-> code, detail |-> detail, body |-> body]

NoBody == <<>>

NoResponse == Response("none", 0, "", NoBody)

\* No response is on its way out.  The event loop hands a handler's response
\* to the client (Deliver) before it takes its next step; no step reads resp,
\* so this removes no behaviour of the server's state.  The worker and pool
\* threads run regardless.
Ready == resp = NoResponse

Return(detail, body) ==
    [raised |-> FALSE, type |-> "", code |-> 200, detail |-> detail, body |-> body]

\* fastapi.HTTPException(status_code, detail): an Exception subclass
HTTPException(code, detail) ==
    [raised |-> TRUE, type |-> "HTTPException", code |-> code, detail |-> detail, body |-> NoBody]

\* any other exception raised with a message
Raise(type, detail) ==
    [raised |-> TRUE, type |-> type, code |-> 0, detail |-> detail, body |-> NoBody]

\* str(e): starlette's HTTPException prints "<status_code>: <detail>",
\* the built-in exceptions print their message
StrExc(e) ==
    IF e.type = "HTTPException" THEN ToString(e.code) \o ": " \o e.detail
    ELSE e.detail

\* try: <body> except Exception as e: raise HTTPException(status_code=code, detail=str(e))
ExceptAs(code, r) ==
    IF r.raised THEN HTTPException(code, StrExc(r)) ELSE r

\* what FastAPI sends for a handler's outcome
Send(op, r) == Response(op, r.code, r.detail, r.body)

Init ==
    /\ agent = NoAgent
    /\ configured = [c \in ConnNames |-> FALSE]
    /\ agent_running = FALSE
    /\ stop_event = FALSE
    /\ agent_task = NoTask
    /\ wpc = [w \in Workers |-> "off"]
    /\ evpc = "idle"
    /\ evarg = "none"
    /\ jobs = {}
    /\ resp = NoResponse
    /\ startedSinceStop = FALSE
    /\ lastLoaded = NoAgent
    /\ joinTimedOut = FALSE

(* ---- ServerState._run_agent_loop, one action per step of the thread ---- *)

\* One pass of `while not self._stop_event.is_set():` with its body
\* `if self.cli.agent: try: <iteration> except Exception: <backoff>`.
\* The iteration touches no shared state; it can fail only inside the try,
\* that is with an agent loaded.
WorkerIterate(w) ==
    /\ wpc[w] = "check"
    /\ \E failed \in BOOLEAN :
          /\ failed => (~stop_event /\ agent # NoAgent)
          /\ wpc' = [wpc EXCEPT ![w] = IF stop_event THEN "finally"
                                       ELSE IF failed THEN "backoff" ELSE "check"]
    /\ UNCHANGED <<agent, configured, agent_running, stop_event, agent_task,
                   evpc, evarg, jobs, resp, history>>

\* a backoff that leaves the loop whatever wait() returned
WorkerBackoff_AlwaysBreaks(w) ==
    /\ wpc[w] = "backoff"
    /\ wpc' = [wpc EXCEPT ![w] = "finally"]
    /\ UNCHANGED <<agent, configured, agent_running, stop_event, agent_task,
                   evpc, evarg, jobs, resp, history>>

\* self._stop_event.wait(timeout=30), entry: the flag is tested under the
\* event's lock; set -> wait returns True at once -> break
WorkerBackoff(w) ==
    /\ wpc[w] = "backoff"
    /\ wpc' = [wpc EXCEPT ![w] = IF stop_event THEN "finally" ELSE "waiting"]
    /\ UNCHANGED <<agent, configured, agent_running, stop_event, agent_task,
                   evpc, evarg, jobs, resp, history>>

\* the 30 s wait expires without a set(): wait returns False, next iteration
WorkerBackoffExpire(w) ==
    /\ wpc[w] = "waiting"
    /\ wpc' = [wpc EXCEPT ![w] = "check"]
    /\ UNCHANGED <<agent, configured, agent_running, stop_event, agent_task,
                   evpc, evarg, jobs, resp, history>>

\* finally: self.agent_running = False
WorkerFinally(w) ==
    /\ wpc[w] = "finally"
    /\ agent_running' = FALSE
    /\ wpc' = [wpc EXCEPT ![w] = "off"]
    /\ UNCHANGED <<agent, configured, stop_event, agent_task, evpc, evarg,
                   jobs, resp, history>>

(* ---- ServerState.start_agent_loop / POST /agent/start ---- *)

\* start_agent_loop without its `if self.agent_running` check
StartLoopCheck_NoRunningCheck ==
    IF agent = NoAgent THEN Raise("ValueError", "No agent loaded")
    ELSE Return("Agent loop started", NoBody)

\* the outcome of start_agent_loop's two checks
StartLoopCheck ==
    IF agent = NoAgent THEN Raise("ValueError", "No agent loaded")
    ELSE IF agent_running THEN Raise("ValueError", "Agent already running")
    ELSE Return("Agent loop started", NoBody)

\* the start path without any `if not self.cli.agent` check
StartOutcome_NoAgentCheck ==
    IF agent_running THEN HTTPException(400, "Agent already running")
    ELSE Return("Agent loop started", NoBody)

\* the handler: its own agent check, then start_agent_loop under except -> 400
StartOutcome ==
    IF agent = NoAgent THEN HTTPException(400, "No agent loaded")
    ELSE ExceptAs(400, StartLoopCheck)

StartAgent ==
    /\ Ready
    /\ evpc = "idle"
    /\ LET r == StartOutcome IN
       IF r.raised
       THEN /\ resp' = Send("start", r)
            /\ UNCHANGED <<agent_running, stop_event, agent_task, wpc, startedSinceStop>>
       ELSE \E w \in Workers :   \* the new Thread: the first unused identity
               /\ ~Alive(w)
               /\ \A v \in Workers : ~Alive(v) => w <= v
               /\ agent_running' = TRUE
               /\ stop_event' = FALSE
               /\ agent_task' = w
               /\ wpc' = [wpc EXCEPT ![w] = "check"]
               /\ resp' = Send("start", r)
               /\ startedSinceStop' = TRUE
    /\ UNCHANGED <<agent, configured, evpc, evarg, jobs, lastLoaded, joinTimedOut>>

(* ---- ServerState.stop_agent_loop / POST /agent/stop ---- *)

\* threading.Event.set(): raises the flag and wakes every thread blocked in wait()
EventSet(pc) == [w \in Workers |-> IF pc[w] = "waiting" THEN "finally" ELSE pc[w]]

\* a stop_agent_loop without its `if self.agent_running` test
StopAgent_AlwaysSignals ==
    /\ Ready
    /\ evpc = "idle"
    /\ startedSinceStop' = FALSE
    /\ stop_event' = TRUE
    /\ wpc' = EventSet(wpc)
    /\ IF agent_task # NoTask
       THEN /\ evpc' = "joining"
            /\ UNCHANGED <<agent_running, resp>>
       ELSE /\ agent_running' = FALSE
            /\ resp' = Send("stop", Return("Agent loop stopped", NoBody))
            /\ UNCHANGED evpc
    /\ UNCHANGED <<agent, configured, agent_task, evarg, jobs, lastLoaded,
                   joinTimedOut>>

\* entry of the handler, up to the blocking join
StopAgent ==
    /\ Ready
    /\ evpc = "idle"
    /\ startedSinceStop' = FALSE
    /\ IF agent_running
       THEN /\ stop_event' = TRUE
            /\ wpc' = EventSet(wpc)
            /\ IF agent_task # NoTask
               THEN /\ evpc' = "joining"
                    /\ UNCHANGED <<agent_running, resp>>
               ELSE /\ agent_running' = FALSE
                    /\ resp' = Send("stop", Return("Agent loop stopped", NoBody))
                    /\ UNCHANGED evpc
       ELSE /\ resp' = Send("stop", Return("Agent loop stopped", NoBody))
            /\ UNCHANGED <<agent_running, stop_event, wpc, evpc>>
    /\ UNCHANGED <<agent, configured, agent_task, evarg, jobs, lastLoaded,
                   joinTimedOut>>

\* stop_agent_loop that marks the loop idle only when the join succeeded
StopReturn_KeepsRunningOnTimeout ==
    /\ agent_running' = IF Alive(agent_task) THEN agent_running ELSE FALSE
    /\ evpc' = "idle"
    /\ resp' = Send("stop", Return("Agent loop stopped", NoBody))
    /\ UNCHANGED <<agent, configured, stop_event, agent_task, wpc, evarg, jobs,
                   startedSinceStop, lastLoaded>>

\* the rest of the handler once join() has returned
StopReturn ==
    /\ agent_running' = FALSE
    /\ evpc' = "idle"
    /\ resp' = Send("stop", Return("Agent loop stopped", NoBody))
    /\ UNCHANGED <<agent, configured, stop_event, agent_task, wpc, evarg, jobs,
                   startedSinceStop, lastLoaded>>

\* a join that does not wait: it returns at once, the thread alive or not
JoinExited_NoWait ==
    /\ Ready
    /\ evpc = "joining"
    /\ StopReturn
    /\ UNCHANGED joinTimedOut

\* self.agent_task.join(timeout=5) returns because the thread has ended
JoinExited ==
    /\ Ready
    /\ evpc = "joining"
    /\ ~Alive(agent_task)
    /\ StopReturn
    /\ UNCHANGED joinTimedOut

\* ... or because the 5 s expired with the thread still alive
JoinTimeout ==
    /\ Ready
    /\ evpc = "joining"
    /\ Alive(agent_task)
    /\ StopReturn
    /\ joinTimedOut' = TRUE

(* ---- the response leaves the server ---- *)

Deliver ==
    /\ ~Ready
    /\ resp' = NoResponse
    /\ UNCHANGED <<lifecycle, configured, evpc, evarg, jobs, history>>

(* ---- GET / ---- *)

Root ==
    /\ Ready
    /\ evpc = "idle"
    /\ resp' = Send("root", Return("running",
                   [agent |-> agent, agent_running |-> agent_running]))
    /\ UNCHANGED <<lifecycle, configured, evpc, evarg, jobs, history>>

(* ---- POST /agents/{name}/load ---- *)

\* ZerePyCLI._load_agent_from_file: resolve the name to a definition and make
\* the new Agent resident; an unknown name fails and leaves cli.agent as it was
LoadAgentFromFile(name) ==
    IF name \in KnownAgents THEN Return("success", name)
    ELSE Raise("NotFoundError", "Agent not found")

\* a handler that swallows the loader's exception and reports success
LoadAgent_SwallowsError(name) ==
    /\ Ready
    /\ evpc = "idle"
    /\ LET r == LoadAgentFromFile(name) IN
       /\ resp' = Send("load", Return("success", name))
       /\ lastLoaded' = name
       /\ IF r.raised
          THEN UNCHANGED <<agent, configured>>
          ELSE /\ agent' = name
               /\ configured' = [c \in ConnNames |-> FALSE]
    /\ UNCHANGED <<agent_running, stop_event, agent_task, wpc, evpc, evarg,
                   jobs, startedSinceStop, joinTimedOut>>

LoadAgent(name) ==
    /\ Ready
    /\ evpc = "idle"
    /\ LET r == ExceptAs(400, LoadAgentFromFile(name)) IN
       /\ resp' = Send("load", r)
       /\ IF r.raised
          THEN UNCHANGED <<agent, configured, lastLoaded>>
          ELSE /\ agent' = name
               /\ configured' = [c \in ConnNames |-> FALSE]
               /\ lastLoaded' = name
    /\ UNCHANGED <<agent_running, stop_event, agent_task, wpc, evpc, evarg,
                   jobs, startedSinceStop, joinTimedOut>>

(* ---- GET /connections ---- *)

IsLLMProvider(c) == c = "llm"

ListConnections ==
    /\ Ready
    /\ evpc = "idle"
    /\ LET r == IF agent = NoAgent THEN HTTPException(400, "No agent loaded")
                ELSE Return("", [c \in ConnNames |->
                                   [configured |-> configured[c],
                                    is_llm_provider |-> IsLLMProvider(c)]])
       IN resp' = Send("connections", r)
    /\ UNCHANGED <<lifecycle, configured, evpc, evarg, jobs, history>>

(* ---- POST /agent/action ---- *)

\* agent_action without its `if not self.state.cli.agent` check
AgentAction_NoAgentCheck(conn) ==
    /\ Ready
    /\ evpc = "idle"
    /\ Cardinality(jobs) < MaxJobs
    /\ \A j \in jobs : j.conn # conn
    /\ jobs' = jobs \cup {[conn |-> conn, st |-> "running"]}
    /\ UNCHANGED <<lifecycle, configured, evpc, evarg, resp, history>>

\* a handler that calls agent.perform_action itself: the event loop thread
\* is inside the call until it returns
AgentAction_Blocking(conn) ==
    /\ Ready
    /\ evpc = "idle"
    /\ IF agent = NoAgent
       THEN /\ resp' = Send("action", HTTPException(400, "No agent loaded"))
            /\ UNCHANGED <<jobs, evpc>>
       ELSE /\ Cardinality(jobs) < MaxJobs
            /\ \A j \in jobs : j.conn # conn
            /\ jobs' = jobs \cup {[conn |-> conn, st |-> "running"]}
            /\ evpc' = "acting"
            /\ UNCHANGED resp
    /\ UNCHANGED <<lifecycle, configured, evarg, history>>

\* the handler up to `await asyncio.to_thread(...)`: the call is handed to a
\* pool thread and the handler is suspended, the event loop is free again
AgentAction(conn) ==
    /\ Ready
    /\ evpc = "idle"
    /\ IF agent = NoAgent
       THEN /\ resp' = Send("action", HTTPException(400, "No agent loaded"))
            /\ UNCHANGED jobs
       ELSE /\ Cardinality(jobs) < MaxJobs
            /\ \A j \in jobs : j.conn # conn
            /\ jobs' = jobs \cup {[conn |-> conn, st |-> "running"]}
            /\ UNCHANGED resp
    /\ UNCHANGED <<lifecycle, configured, evpc, evarg, history>>

\* Agent.perform_action on the pool thread: registry lookup, then the
\* connection's perform_action, which fails on an unconfigured connection and
\* may fail in the external system
PerformAction(j) ==
    /\ j \in jobs
    /\ j.st = "running"
    /\ j.conn \in ConnNames
    /\ \E st \in {"ok", "ActionError"} :
          /\ (st = "ok") => configured[j.conn]
          /\ jobs' = (jobs \ {j}) \cup {[conn |-> j.conn, st |-> st]}
    /\ UNCHANGED <<lifecycle, configured, evpc, evarg, resp, history>>

PerformActionUnknown(j) ==
    /\ j \in jobs
    /\ j.st = "running"
    /\ j.conn \notin ConnNames
    /\ jobs' = (jobs \ {j}) \cup {[conn |-> j.conn, st |-> "NotFoundError"]}
    /\ UNCHANGED <<lifecycle, configured, evpc, evarg, resp, history>>

\* a handler that reports the call as a success whatever it raised
ActionOutcome_SwallowsError(j) ==
    Return("success", j.conn)

\* the handler resumes on the event loop with the call's result or exception
ActionOutcome(j) ==
    ExceptAs(400, IF j.st = "ok" THEN Return("success", j.conn)
                  ELSE IF j.st = "NotFoundError"
                       THEN Raise("NotFoundError", "Connection " \o j.conn \o " not found")
                       ELSE Raise("ActionError", "Action failed"))

AgentActionReturn(j) ==
    /\ Ready
    /\ evpc = "idle"
    /\ j \in jobs
    /\ j.st # "running"
    /\ jobs' = jobs \ {j}
    /\ resp' = Send("action", ActionOutcome(j))
    /\ UNCHANGED <<lifecycle, configured, evpc, evarg, history>>

(* ---- POST /connections/{name}/configure ---- *)

\* connections.get(name) inside the handler's try ... except Exception -> 500
ConnectionLookup(name) ==
    ExceptAs(500, IF name \notin ConnNames
                  THEN HTTPException(404, "Connection " \o name \o " not found")
                  ELSE Return("", name))

\* the handler up to the blocking connection.configure(**params) call
ConfigureConnection(name) ==
    /\ Ready
    /\ evpc = "idle"
    /\ IF agent = NoAgent
       THEN /\ resp' = Send("configure", HTTPException(400, "No agent loaded"))
            /\ UNCHANGED <<evpc, evarg>>
       ELSE LET r == ConnectionLookup(name) IN
            IF r.raised
            THEN /\ resp' = Send("configure", r)
                 /\ UNCHANGED <<evpc, evarg>>
            ELSE /\ evpc' = "configuring"
                 /\ evarg' = name
                 /\ UNCHANGED resp
    /\ UNCHANGED <<lifecycle, configured, jobs, history>>

\* a handler that does not test what configure() returned
ConfigureOutcome_IgnoresResult(name, result) ==
    ExceptAs(500, IF result \in {"True", "False"}
                  THEN Return("Connection " \o name \o " configured successfully", NoBody)
                  ELSE Raise("ConfigurationError", "Configuration failed"))

\* the rest of the handler for what configure() did: returned True, returned
\* False, or raised
ConfigureOutcome(name, result) ==
    ExceptAs(500, IF result = "True"
                  THEN Return("Connection " \o name \o " configured successfully", NoBody)
                  ELSE IF result = "False"
                       THEN HTTPException(400, "Failed to configure " \o name)
                       ELSE Raise("ConfigurationError", "Configuration failed"))

ConfigureReturn(result) ==
    /\ Ready
    /\ evpc = "configuring"
    /\ configured' = IF result = "True" THEN [configured EXCEPT ![evarg] = TRUE]
                     ELSE configured
    /\ resp' = Send("configure", ConfigureOutcome(evarg, result))
    /\ evpc' = "idle"
    /\ evarg' = "none"
    /\ UNCHANGED <<lifecycle, jobs, history>>

(* ---- GET /connections/{name}/status ---- *)

StatusOutcome(name) ==
    LET r == ConnectionLookup(name) IN
    IF r.raised THEN r
    ELSE Return("", [name |-> name, configured |-> configured[name],
                     is_llm_provider |-> IsLLMProvider(name)])

ConnectionStatus(name) ==
    /\ Ready
    /\ evpc = "idle"
    /\ resp' = Send("status", IF agent = NoAgent
                              THEN HTTPException(400, "No agent loaded")
                              ELSE StatusOutcome(name))
    /\ UNCHANGED <<lifecycle, configured, evpc, evarg, jobs, history>>

Next ==
    \/ Deliver
    \/ \E w \in Workers : WorkerIterate(w)
    \/ \E w \in Workers : WorkerBackoff(w)
    \/ \E w \in Workers : WorkerBackoffExpire(w)
    \/ \E w \in Workers : WorkerFinally(w)
    \/ StartAgent
    \/ StopAgent
    \/ JoinExited
    \/ JoinTimeout
    \/ Root
    \/ \E name \in AgentNames : LoadAgent(name)
    \/ ListConnections
    \/ \E conn \in ActConns : AgentAction(conn)
    \/ \E j \in jobs : PerformAction(j)
    \/ \E j \in jobs : PerformActionUnknown(j)
    \/ \E j \in jobs : AgentActionReturn(j)
    \/ \E name \in ReqConns : ConfigureConnection(name)
    \/ \E result \in {"True", "False", "raise"} : ConfigureReturn(result)
    \/ \E name \in ReqConns : ConnectionStatus(name)

Spec == Init /\ [][Next]_vars

\* The loop worker is an OS thread of its own: a step it can take it
\* eventually takes, whatever the event loop is doing.  A response on its way
\* out is delivered.  Requests are the environment's: no fairness.
FairSpec ==
    /\ Spec
    /\ WF_vars(Deliver)
    /\ \A w \in Workers : WF_vars(WorkerIterate(w))
    /\ \A w \in Workers : WF_vars(WorkerBackoff(w))
    /\ \A w \in Workers : WF_vars(WorkerBackoffExpire(w))
    /\ \A w \in Workers : WF_vars(WorkerFinally(w))

(* ======================== properties ======================== *)

TaskAlive == agent_task # NoTask /\ Alive(agent_task)

\* C1: a start_loop issued after a successful start_loop, with no stop_loop
\* call in between, is rejected with 400 'Agent already running' and starts
\* no worker.
C1_SecondStartRejected ==
    [][(startedSinceStop /\ StartAgent) =>
         /\ resp'.code = 400
         /\ resp'.detail = "Agent already running"
         /\ wpc' = wpc]_vars

\* C2: whenever stop_loop has returned, agent_running is false, whether the
\* worker exited within the join or is still alive at the timeout.
C2_StopLeavesNotRunning == resp.op = "stop" => ~agent_running

\* stop_loop has returned after a join that timed out: the worker is alive
C2_Witness ==
    /\ resp.op = "stop"
    /\ TaskAlive
    /\ stop_event
    /\ ~agent_running

\* C3: load_agent while the loop is Running fails and leaves the resident
\* agent and the loop unchanged; the resident agent is never replaced while
\* the loop is Running.
C3_NoLoadWhileRunning ==
    [][agent_running =>
         /\ agent' = agent
         /\ (\E name \in AgentNames : LoadAgent(name)) =>
               (resp'.code # 200 /\ UNCHANGED lifecycle)]_vars

\* C4: if the loop is marked Running then an agent is loaded.
C4_RunningImpliesLoaded == agent_running => agent # NoAgent

\* the loop has been started and is marked Running
C4_Witness ==
    /\ agent_running
    /\ TaskAlive
    /\ resp.op = "start"
    /\ resp.code = 200

\* C5: start_loop fails with 'No agent loaded' when no agent is loaded and
\* with 'Agent already running' when the loop is Running; a rejected
\* start_loop leaves agent_running, the stop signal and the worker reference
\* unchanged; only a successful start_loop sets Running or launches a worker.
C5_StartRejections ==
    /\ [][StartAgent =>
            /\ agent = NoAgent =>
                  (resp'.code = 400 /\ resp'.detail = "No agent loaded")
            /\ (agent # NoAgent /\ agent_running) =>
                  (resp'.code = 400 /\ resp'.detail = "Agent already running")
            /\ resp'.code # 200 =>
                  UNCHANGED <<agent_running, stop_event, agent_task, wpc>>]_vars
    /\ [][((~agent_running /\ agent_running')
             \/ (\E w \in Workers : ~Alive(w) /\ wpc'[w] # "off")) =>
            (StartAgent /\ resp'.code = 200)]_vars

\* a start_loop has been rejected because the loop is Running
C5_Witness ==
    /\ resp.op = "start"
    /\ resp.code = 400
    /\ resp.detail = "Agent already running"
    /\ agent_running
    /\ TaskAlive

\* C6: once stop_loop has set the stop signal for the running worker, that
\* worker eventually observes it and exits, whatever requests follow.
\* (The stop signal is set for worker w: the flag is up and w is the thread
\* stop_loop joins; start_loop lowers the flag when it replaces agent_task.)
C6_StopSignalObserved ==
    \A w \in Workers : (stop_event /\ agent_task = w /\ Alive(w)) ~> ~Alive(w)

\* C7: start_loop, stop_loop and load_agent are serialized: no handler of the
\* three takes a step while another is between its check and its update, and
\* of the start_loop requests submitted with no stop_loop among them at most
\* one succeeds.
C7_SerializedNoDoubleStart ==
    [][/\ evpc # "idle" =>
            ~(StartAgent \/ StopAgent \/ \E name \in AgentNames : LoadAgent(name))
       /\ (StartAgent /\ resp'.code = 200) => ~startedSinceStop]_vars

\* C8: after load_agent calls of which one succeeded, the resident agent is
\* the last successfully loaded one (and the status endpoint reports it); a
\* load_agent of an unknown name reports an error and leaves the resident
\* agent in place.
C8_LastLoadedResident ==
    /\ [](lastLoaded # NoAgent =>
            /\ agent = lastLoaded
            /\ resp.op = "root" => resp.body.agent = lastLoaded)
    /\ [][\A name \in AgentNames \ KnownAgents :
            LoadAgent(name) => (resp'.code = 400 /\ agent' = agent)]_vars

\* a load of an unknown name has failed after two successful loads
C8_Witness ==
    /\ resp.op = "load"
    /\ resp.code = 400
    /\ lastLoaded = "other"
    /\ agent = "other"

\* C9: with no agent loaded, /agent/action, /connections, /agent/start,
\* /connections/{name}/configure and /connections/{name}/status answer 400
\* 'No agent loaded', dispatch no action and change no lifecycle state.
C9_NoAgentRejected ==
    [][(/\ agent = NoAgent
        /\ \/ \E conn \in ActConns : AgentAction(conn)
           \/ ListConnections
           \/ StartAgent
           \/ \E name \in ReqConns : ConfigureConnection(name)
           \/ \E name \in ReqConns : ConnectionStatus(name)) =>
         /\ resp'.code = 400
         /\ resp'.detail = "No agent loaded"
         /\ UNCHANGED <<lifecycle, configured, jobs, evpc, evarg>>]_vars

\* an action request has been rejected with no agent loaded
C9_Witness ==
    /\ agent = NoAgent
    /\ resp.op = "action"
    /\ resp.code = 400
    /\ resp.detail = "No agent loaded"
    /\ jobs = {}

\* C10: with an agent loaded, configure and status for a name that is not in
\* the registry answer 404.
C10_UnknownConnection404 ==
    [][(/\ agent # NoAgent
        /\ \E name \in ReqConns \ ConnNames :
              ConfigureConnection(name) \/ ConnectionStatus(name)) =>
         resp'.code = 404]_vars

\* C11: perform_action naming a connection that is not in the registry fails
\* with a not-found error that the caller receives (400 with the error's
\* message), and neither the dispatch, the failing call nor the return changes
\* any connection's configured flag, the registry key set or the lifecycle
\* state.
C11_UnknownConnectionAction ==
    [][/\ \A conn \in ActConns \ ConnNames :
            (agent # NoAgent /\ AgentAction(conn)) =>
               /\ UNCHANGED <<lifecycle, configured>>
               /\ [conn |-> conn, st |-> "running"] \in jobs'
       /\ \A j \in jobs :
            (j.conn \notin ConnNames /\ PerformActionUnknown(j)) =>
               /\ UNCHANGED <<lifecycle, configured>>
               /\ [conn |-> j.conn, st |-> "NotFoundError"] \in jobs'
       /\ \A j \in jobs :
            (j.conn \notin ConnNames /\ AgentActionReturn(j)) =>
               /\ UNCHANGED <<lifecycle, configured>>
               /\ DOMAIN configured' = ConnNames
               /\ resp'.code = 400
               /\ resp'.detail = "Connection " \o j.conn \o " not found"]_vars

\* an action on an unknown connection has been answered with the error
C11_Witness ==
    /\ agent # NoAgent
    /\ resp.op = "action"
    /\ resp.code = 400
    /\ resp.detail = "Connection nosuch not found"

\* C12: a configure call and a perform_action call on the same connection never
\* execute at the same time: no configure is in progress on a connection
\* while a perform_action handed to a pool thread is in progress on it.
C12_NoConfigureDuringAction ==
    ~(/\ evpc = "configuring"
      /\ \E j \in jobs : j.st = "running" /\ j.conn = evarg)

\* C13: after a configure request on a connection has returned success, a
\* status query on it reports configured = true, however configure requests on
\* it interleave: a success is answered only with the flag set, no later
\* configure, action, start or stop takes the flag down again (only loading an
\* agent builds new connections), and a status query reports the flag as it
\* is.  A configure call changes no other connection's flag and not the
\* registry key set.
C13_ConfigureThenStatus ==
    /\ [](\A c \in ConnNames :
            (resp.op = "configure" /\ resp.code = 200
              /\ resp.detail = "Connection " \o c \o " configured successfully")
               => configured[c])
    /\ [][\A c \in ConnNames :
            (configured[c] /\ ~(\E name \in AgentNames : LoadAgent(name)))
               => configured'[c]]_vars
    /\ [][\A name \in ConnNames :
            (agent # NoAgent /\ ConnectionStatus(name)) =>
               /\ resp'.code = 200
               /\ resp'.body.name = name
               /\ resp'.body.configured = configured[name]]_vars
    /\ [][\A result \in {"True", "False", "raise"} :
            ConfigureReturn(result) =>
               /\ DOMAIN configured' = ConnNames
               /\ \A c \in ConnNames \ {evarg} : configured'[c] = configured[c]]_vars

\* a status query has reported a connection as configured
C13_Witness ==
    /\ resp.op = "status"
    /\ resp.code = 200
    /\ resp.body.name = "twitter"
    /\ resp.body.configured

\* C14: a failure inside a loop iteration does not end the loop: the worker
\* goes into the backoff wait and from there back to the next iteration; it
\* leaves the loop from the backoff only when the stop signal is set (already
\* set when the wait begins, or set during the wait).
C14_FailureBacksOff ==
    [][\A w \in Workers :
         /\ (wpc[w] = "check" /\ ~stop_event) => wpc'[w] \in {"check", "backoff"}
         /\ wpc[w] = "backoff" =>
               \/ wpc'[w] \in {"backoff", "waiting"}
               \/ wpc'[w] = "finally" /\ stop_event
         /\ wpc[w] = "waiting" =>
               \/ wpc'[w] \in {"waiting", "check"}
               \/ wpc'[w] = "finally" /\ ~stop_event /\ stop_event']_vars

\* a worker is waiting out the backoff after a failed iteration, the stop
\* signal not set
C14_Witness ==
    \E w \in Workers : wpc[w] = "waiting" /\ ~stop_event /\ agent_running

ActionRunning == \E j \in jobs : j.st = "running"

\* C15: while a perform_action call is blocked inside a connection the event
\* loop is not blocked by it: dispatching the call leaves the loop free, and
\* with the call still running a status, start_loop, stop_loop or load_agent
\* request can be taken up and is answered with the call still running (a
\* stop_loop that joins a worker returns when its join does).
C15_ActionDoesNotBlockRequests ==
    /\ [][\A conn \in ActConns :
            (agent # NoAgent /\ AgentAction(conn)) =>
               /\ evpc' = "idle"
               /\ [conn |-> conn, st |-> "running"] \in jobs']_vars
    /\ []((ActionRunning /\ Ready /\ evpc = "idle") =>
            /\ ENABLED Root
            /\ ENABLED (\E name \in ReqConns : ConnectionStatus(name))
            /\ ENABLED (\E name \in AgentNames : LoadAgent(name))
            /\ ENABLED StopAgent
            /\ (ENABLED StartAgent) \/ (\A w \in Workers : Alive(w)))
    /\ []((ActionRunning /\ Ready /\ evpc = "joining") =>
            ENABLED (JoinExited \/ JoinTimeout))
    /\ [][(/\ ActionRunning
           /\ \/ Root
              \/ \E name \in ReqConns : ConnectionStatus(name)
              \/ \E name \in AgentNames : LoadAgent(name)
              \/ StartAgent
              \/ StopAgent /\ ~agent_running
              \/ JoinExited
              \/ JoinTimeout) =>
            /\ resp' # NoResponse
            /\ evpc' = "idle"
            /\ jobs' = jobs]_vars

\* a stop_loop of a started loop has been answered while the action call is
\* still running
C15_Witness ==
    /\ ActionRunning
    /\ resp.op = "stop"
    /\ stop_event
    /\ agent_task # NoTask

\* C16: stop_loop called while the loop is not Running reports success and
\* does nothing: it does not set the stop signal, joins no worker, and leaves
\* agent_running, the worker reference, the workers and the resident agent as
\* they were.
C16_StopWhenIdleIsNoOp ==
    [][(~agent_running /\ StopAgent) =>
         /\ resp' = Send("stop", Return("Agent loop stopped", NoBody))
         /\ evpc' = "idle"
         /\ UNCHANGED <<stop_event, agent_running, agent_task, agent, wpc>>]_vars

\* a stop_loop has been answered with the loop never started
C16_Witness ==
    /\ resp.op = "stop"
    /\ resp.code = 200
    /\ agent_task = NoTask
    /\ ~stop_event
    /\ ~agent_running

\* C17: when the connection's configure returns false the configure request
\* is answered 400 with detail 'Failed to configure <name>'; it is answered
\* 500 only when configure raises.
C17_ConfigureFalseIs400 ==
    [][/\ ConfigureReturn("False") =>
            /\ resp'.code = 400
            /\ resp'.detail = "Failed to configure " \o evarg
       /\ \A result \in {"True", "False"} :
            ConfigureReturn(result) => resp'.code # 500]_vars

AliveWorkers == {w \in Workers : Alive(w)}

\* C18: in every reachable state at most one loop worker is alive.
C18_AtMostOneWorker == Cardinality(AliveWorkers) <= 1

\* C18, amended: as long as no stop_loop's join has timed out, at most one
\* loop worker is alive.
C18_OneWorkerUnlessAbandoned ==
    ~joinTimedOut => Cardinality(AliveWorkers) <= 1

\* a start_loop has launched a worker, no join having timed out before
C18_Witness ==
    /\ ~joinTimedOut
    /\ TaskAlive
    /\ Cardinality(AliveWorkers) = 1
    /\ resp.op = "start"
    /\ resp.code = 200

\* C19: while the worker launched by the most recent successful start_loop is
\* alive and no stop_loop has been called since that start, agent_running is
\* true and the status endpoint reports it; the exit of a worker launched by an
\* earlier start_loop does not set agent_running to false.
C19_RunningWhileCurrentWorkerAlive ==
    (startedSinceStop /\ TaskAlive) =>
        /\ agent_running
        /\ resp.op = "root" => resp.body.agent_running

====
